---- MODULE Spec2Model ----
(***************************************************************************)
(* Model of xcloud-listener (src/xcloud-listener/src/main.go): a native    *)
(* messaging host.  The specifications:                                    *)
(*                                                                         *)
(*   Spec          the process as main() runs it: Init(...), then          *)
(*                 handleRequests(), whose HTTP handlers run concurrently  *)
(*                 and write frames to standard output.  main() never      *)
(*                 calls read(), so the stdio loop stays NotStarted.       *)
(*   SpecRead      read() called on a standard input fed by a peer: the    *)
(*                 read loop, parseMessage and send.                       *)
(*   FairSpecRead  SpecRead with the loop scheduled fairly.                *)
(*   SpecOversize  SpecRead fed frames longer than bufferSize.             *)
(*   SpecLen       writeMessageLength and readMessageLength on one         *)
(*                 length, on every kind of platform.                      *)
(*   SpecBoth      read() started beside handleRequests(): the loop and    *)
(*                 the HTTP handlers as two contexts of one process.       *)
(*                                                                         *)
(* A byte is a number 0..255, a byte string a sequence of bytes.           *)
(***************************************************************************)
EXTENDS Integers, Sequences, FiniteSets, TLC

(***************************************************************************)
(* Bytes and text                                                          *)
(***************************************************************************)

\* The printable ASCII characters, in code order from 32 (space) to 126 (~);
\* the double quote, the parentheses, the star, the
\* backslash and the backtick are spelled out.
Ascii ==
  << " ", "!", "dquote", "#", "$", "%", "&", "'", "lparen", "rparen", "star", "+", ",", "-", ".", "/",
     "0", "1", "2", "3", "4", "5", "6", "7", "8", "9", ":", ";", "<", "=", ">", "?",
     "@", "A", "B", "C", "D", "E", "F", "G", "H", "I", "J", "K", "L", "M", "N", "O",
     "P", "Q", "R", "S", "T", "U", "V", "W", "X", "Y", "Z", "[", "backslash", "]", "^", "_",
     "backtick", "a", "b", "c", "d", "e", "f", "g", "h", "i", "j", "k", "l", "m", "n", "o",
     "p", "q", "r", "s", "t", "u", "v", "w", "x", "y", "z", "{", "|", "}", "~" >>

\* The byte of a printable ASCII character.
Ord(c) == 31 + (CHOOSE i \in 1..Len(Ascii) : Ascii[i] = c)

RECURSIVE Str(_)
\* A Go string literal as its bytes; t is the tuple of its characters.
Str(t) == IF t = <<>> THEN <<>> ELSE <<Ord(Head(t))>> \o Str(Tail(t))

\* The string literals of main.go.
ping == Str(<<"p", "i", "n", "g">>)
pong == Str(<<"p", "o", "n", "g">>)
hello == Str(<<"h", "e", "l", "l", "o">>)
goodbye == Str(<<"g", "o", "o", "d", "b", "y", "e">>)
fortyTwo == Str(<<"4", "2">>)
queryKey == Str(<<"q", "u", "e", "r", "y">>)
tracePrefix == Str(<<"T", "R", "A", "C", "E", ":", " ">>)
homeBody ==
  Str(<<"H", "o", "m", "e", " ", "E", "n", "d", "p", "o", "i", "n", "t", " ", "h", "i", "t">>)

\* ASCII lower-case digits of a 4-bit value, as json.Marshal writes \u00XX.
hex == Str(<<"0", "1", "2", "3", "4", "5", "6", "7", "8", "9", "a", "b", "c", "d", "e", "f">>)

RECURSIVE Zeros(_)
\* n zero bytes: make([]byte, n).
Zeros(n) == IF n = 0 THEN <<>> ELSE <<0>> \o Zeros(n - 1)

\* The first n elements of s (all of s when it is shorter).
Take(s, n) == SubSeq(s, 1, IF n < Len(s) THEN n ELSE Len(s))

\* s without its first n elements.
Drop(s, n) == SubSeq(s, n + 1, Len(s))

RECURSIVE Flatten(_)
\* The concatenation of a sequence of byte strings.
Flatten(ss) == IF ss = <<>> THEN <<>> ELSE Head(ss) \o Flatten(Tail(ss))

(***************************************************************************)
(* Program constants                                                       *)
(***************************************************************************)

\* var bufferSize = 8192: the size of the bufio.Reader read() reads through.
bufferSize == 8192

\* The byte orders Init can detect; which one is a property of the platform.
ByteOrders == {"LittleEndian", "BigEndian"}

(***************************************************************************)
(* Framing: the 4-byte length header                                       *)
(***************************************************************************)

\* The widths of int, one per kind of platform Go builds for.
IntSizes == {32, 64}

\* A number that may lie beyond the integers TLC computes with (below 2^31):
\* hi * 2^31 + lo with 0 <= lo < 2^31.  A uint32 has hi 0 or 1; an int of 32
\* bits has hi -1 or 0.
Wide(hi, lo) == [hi |-> hi, lo |-> lo]

\* A wide number that is below 2^31, as an integer.
IntOf(w) == CASE w.hi = 0 -> w.lo

\* uint32(n) for an int 0 <= n < 2^31, as lengths of byte slices are here.
uint32(n) == Wide(0, n)

\* int(u) for a uint32 u: the same number where int has 64 bits; where it
\* has 32 bits the same bit pattern, bit 31 now the sign.
int(size, u) == IF size = 64 THEN u ELSE Wide(0 - u.hi, u.lo)

\* binary.Write(w, order, u) for a uint32 u: its four bytes, in order.
binaryWrite(order, u) ==
  LET b0 == u.lo % 256
      b1 == (u.lo \div 256) % 256
      b2 == (u.lo \div 65536) % 256
      b3 == u.lo \div 16777216 + 128 * u.hi
  IN  IF order = "LittleEndian" THEN <<b0, b1, b2, b3>> ELSE <<b3, b2, b1, b0>>

\* A binary.Read that takes the bytes as little-endian on every platform.
binaryReadLittle(order, msg) ==
  Wide(msg[4] \div 128, msg[1] + 256 * msg[2] + 65536 * msg[3] + 16777216 * (msg[4] % 128))

\* binary.Read(buf, order, &length) for a uint32 and 4 bytes in buf.
binaryRead(order, msg) ==
  LET m == IF order = "LittleEndian" THEN msg ELSE <<msg[4], msg[3], msg[2], msg[1]>>
  IN  Wide(m[4] \div 128, m[1] + 256 * m[2] + 65536 * m[3] + 16777216 * (m[4] % 128))

\* The header writeMessageLength writes for a message of n bytes:
\* binary.Write(os.Stdout, order, uint32(n)).
encodeLength(order, n) == binaryWrite(order, uint32(n))

\* readMessageLength: binary.Read of a uint32 from the 4 bytes of msg,
\* returned as int(length).
readMessageLength(order, size, msg) == int(size, binaryRead(order, msg))

(***************************************************************************)
(* encoding/json, as far as main.go uses it: json.Marshal of a string      *)
(* (msgTextToBytes) and json.Unmarshal into IncomingMessage                *)
(* (decodeMessage).                                                        *)
(***************************************************************************)

\* Is b a UTF-8 continuation byte?
IsCont(b) == b >= 128 /\ b <= 191

\* The number of bytes of the UTF-8 encoded rune that starts at s[i], or 0
\* when the bytes there are no valid encoding (utf8.DecodeRune's RuneError
\* of width 1).
RuneLen(s, i) ==
  LET b == s[i]
      n == Len(s)
      c1 == IF i + 1 <= n THEN s[i + 1] ELSE 0
      c2 == IF i + 2 <= n THEN s[i + 2] ELSE 0
      c3 == IF i + 3 <= n THEN s[i + 3] ELSE 0
  IN  CASE b < 128 -> 1
        [] b >= 194 /\ b <= 223 -> IF IsCont(c1) THEN 2 ELSE 0
        [] b = 224 -> IF c1 >= 160 /\ c1 <= 191 /\ IsCont(c2) THEN 3 ELSE 0
        [] b = 237 -> IF c1 >= 128 /\ c1 <= 159 /\ IsCont(c2) THEN 3 ELSE 0
        [] b >= 225 /\ b <= 239 /\ b # 237 -> IF IsCont(c1) /\ IsCont(c2) THEN 3 ELSE 0
        [] b = 240 -> IF c1 >= 144 /\ c1 <= 191 /\ IsCont(c2) /\ IsCont(c3) THEN 4 ELSE 0
        [] b >= 241 /\ b <= 243 -> IF IsCont(c1) /\ IsCont(c2) /\ IsCont(c3) THEN 4 ELSE 0
        [] b = 244 -> IF c1 >= 128 /\ c1 <= 143 /\ IsCont(c2) /\ IsCont(c3) THEN 4 ELSE 0
        [] OTHER -> 0

\* The UTF-8 encoding of a rune (utf8.EncodeRune); U+FFFD is EF BF BD.
EncodeRune(r) ==
  CASE r < 128 -> <<r>>
    [] r >= 128 /\ r < 2048 -> <<192 + (r \div 64), 128 + (r % 64)>>
    [] r >= 2048 /\ r < 65536 ->
         <<224 + (r \div 4096), 128 + ((r \div 64) % 64), 128 + (r % 64)>>
    [] OTHER ->
         <<240 + (r \div 262144), 128 + ((r \div 4096) % 64),
           128 + ((r \div 64) % 64), 128 + (r % 64)>>

\* U+FFFD, which replaces invalid input.
ReplacementChar == EncodeRune(65533)

RECURSIVE appendString(_, _)
\* The body of a JSON string as json.Marshal writes it for the Go string s
\* from index i on (HTML escaping is on): the quote and the backslash get a
\* backslash, control bytes and < > & become \u00XX (\n, \r, \t, and since
\* Go 1.22 \b and \f, have short forms), invalid UTF-8 becomes the escape
\* of U+FFFD, and U+2028 and U+2029 are written as escapes.
appendString(s, i) ==
  IF i > Len(s) THEN <<>>
  ELSE
    LET b == s[i]
        w == RuneLen(s, i)
        u00 == <<92, 117, 48, 48>>
    IN  CASE b = 34 \/ b = 92 -> <<92, b>> \o appendString(s, i + 1)
          [] b = 8 -> <<92, 98>> \o appendString(s, i + 1)
          [] b = 12 -> <<92, 102>> \o appendString(s, i + 1)
          [] b = 10 -> <<92, 110>> \o appendString(s, i + 1)
          [] b = 13 -> <<92, 114>> \o appendString(s, i + 1)
          [] b = 9 -> <<92, 116>> \o appendString(s, i + 1)
          [] b < 32 \/ b = 60 \/ b = 62 \/ b = 38 ->
               u00 \o <<hex[(b \div 16) + 1], hex[(b % 16) + 1]>> \o appendString(s, i + 1)
          [] b >= 128 /\ w = 0 ->
               <<92, 117, 102, 102, 102, 100>> \o appendString(s, i + 1)
          [] b = 226 /\ w = 3 /\ s[i + 1] = 128 /\ s[i + 2] \in {168, 169} ->
               <<92, 117, 50, 48, 50, hex[(s[i + 2] % 16) + 1]>> \o appendString(s, i + 3)
          [] OTHER -> SubSeq(s, i, i + w - 1) \o appendString(s, i + w)

\* json.Marshal(msgText) for a string: the quoted, escaped text.  It never
\* returns an error for a string.
jsonMarshalString(s) == <<34>> \o appendString(s, 1) \o <<34>>

\* msgTextToBytes: the bytes of the JSON encoding of the response text.
msgTextToBytes(msgText) == jsonMarshalString(msgText)

\* JSON white space: space, tab, line feed, carriage return.
IsSpace(b) == b \in {32, 9, 10, 13}

\* An ASCII digit.
IsDigit(b) == b >= 48 /\ b <= 57

\* A hexadecimal digit, either case.
IsHex(b) == IsDigit(b) \/ (b >= 97 /\ b <= 102) \/ (b >= 65 /\ b <= 70)

\* The value of a hexadecimal digit.
HexVal(b) == IF IsDigit(b) THEN b - 48 ELSE IF b >= 97 THEN b - 87 ELSE b - 55

\* Has s four hexadecimal digits at i?
Has4Hex(s, i) == i + 3 <= Len(s) /\ \A k \in 0..3 : IsHex(s[i + k])

\* getu4: the value of the four hexadecimal digits at i.
U4(s, i) == 4096 * HexVal(s[i]) + 256 * HexVal(s[i + 1]) + 16 * HexVal(s[i + 2]) + HexVal(s[i + 3])

RECURSIVE SkipSpace(_, _)
\* The first index from i on that holds no white space (Len(s) + 1 if none).
SkipSpace(s, i) == IF i <= Len(s) /\ IsSpace(s[i]) THEN SkipSpace(s, i + 1) ELSE i

RECURSIVE SkipDigits(_, _)
\* The first index from i on that holds no digit.
SkipDigits(s, i) == IF i <= Len(s) /\ IsDigit(s[i]) THEN SkipDigits(s, i + 1) ELSE i

\* Does s hold the bytes of lit at i?
HasLit(s, i, lit) == i + Len(lit) - 1 <= Len(s) /\ SubSeq(s, i, i + Len(lit) - 1) = lit

RECURSIVE ScanString(_, _)
\* The scanner in a string whose opening quote came just before i: the
\* index after the closing quote, or 0 for a syntax error.
ScanString(s, i) ==
  IF i > Len(s) THEN 0
  ELSE
    LET b == s[i]
    IN  CASE b = 34 -> i + 1
          [] b = 92 ->
               IF i + 1 > Len(s) THEN 0
               ELSE IF s[i + 1] \in {34, 92, 47, 98, 102, 110, 114, 116}
                    THEN ScanString(s, i + 2)
               ELSE IF s[i + 1] = 117 /\ Has4Hex(s, i + 2) THEN ScanString(s, i + 6)
               ELSE 0
          [] b < 32 -> 0
          [] OTHER -> ScanString(s, i + 1)

\* The scanner on a number at i: -? (0 | [1-9][0-9]*) (.[0-9]+)? ([eE][+-]?[0-9]+)?
\* The index after it, or 0 for a syntax error.
ScanNumber(s, i) ==
  LET n == Len(s)
      a == IF s[i] = 45 THEN i + 1 ELSE i
      b == IF a > n \/ ~IsDigit(s[a]) THEN 0
           ELSE IF s[a] = 48 THEN a + 1 ELSE SkipDigits(s, a)
      c == IF b = 0 THEN 0
           ELSE IF b <= n /\ s[b] = 46
                THEN IF b + 1 <= n /\ IsDigit(s[b + 1]) THEN SkipDigits(s, b + 1) ELSE 0
           ELSE b
      d == IF c = 0 THEN 0
           ELSE IF c <= n /\ s[c] \in {101, 69}
                THEN LET e == IF c + 1 <= n /\ s[c + 1] \in {43, 45} THEN c + 2 ELSE c + 1
                     IN  IF e <= n /\ IsDigit(s[e]) THEN SkipDigits(s, e) ELSE 0
           ELSE c
  IN  d

RECURSIVE ScanValue(_, _), ScanMembers(_, _), ScanElements(_, _)
\* The scanner on the JSON value that starts at i: the index after it, or 0
\* for a syntax error.
ScanValue(s, i) ==
  IF i > Len(s) THEN 0
  ELSE
    LET b == s[i]
    IN  CASE b = 34 -> ScanString(s, i + 1)
          [] b = 123 ->
               LET j == SkipSpace(s, i + 1)
               IN  IF j <= Len(s) /\ s[j] = 125 THEN j + 1 ELSE ScanMembers(s, j)
          [] b = 91 ->
               LET j == SkipSpace(s, i + 1)
               IN  IF j <= Len(s) /\ s[j] = 93 THEN j + 1 ELSE ScanElements(s, j)
          [] b = 116 -> IF HasLit(s, i, <<116, 114, 117, 101>>) THEN i + 4 ELSE 0
          [] b = 102 -> IF HasLit(s, i, <<102, 97, 108, 115, 101>>) THEN i + 5 ELSE 0
          [] b = 110 -> IF HasLit(s, i, <<110, 117, 108, 108>>) THEN i + 4 ELSE 0
          [] b = 45 \/ IsDigit(b) -> ScanNumber(s, i)
          [] OTHER -> 0

\* The members of an object from the key at i to the closing brace.
ScanMembers(s, i) ==
  IF i > Len(s) \/ s[i] # 34 THEN 0
  ELSE
    LET k == ScanString(s, i + 1)
        c == IF k = 0 THEN 0 ELSE SkipSpace(s, k)
        v == IF c = 0 \/ c > Len(s) \/ s[c] # 58 THEN 0 ELSE ScanValue(s, SkipSpace(s, c + 1))
        e == IF v = 0 THEN 0 ELSE SkipSpace(s, v)
    IN  IF e = 0 \/ e > Len(s) THEN 0
        ELSE IF s[e] = 44 THEN ScanMembers(s, SkipSpace(s, e + 1))
        ELSE IF s[e] = 125 THEN e + 1
        ELSE 0

\* The elements of an array from the value at i to the closing bracket.
ScanElements(s, i) ==
  LET v == ScanValue(s, i)
      e == IF v = 0 THEN 0 ELSE SkipSpace(s, v)
  IN  IF e = 0 \/ e > Len(s) THEN 0
      ELSE IF s[e] = 44 THEN ScanElements(s, SkipSpace(s, e + 1))
      ELSE IF s[e] = 93 THEN e + 1
      ELSE 0

\* checkValid: is s one JSON value, with nothing but white space around it?
checkValid(s) ==
  LET e == ScanValue(s, SkipSpace(s, 1))
  IN  e # 0 /\ SkipSpace(s, e) = Len(s) + 1

\* Is r a UTF-16 surrogate?
IsSurrogate(r) == r >= 55296 /\ r <= 57343

RECURSIVE Unquote(_, _)
\* The Go string of a valid JSON string whose opening quote came just
\* before i (unquote): escapes resolved, invalid UTF-8 and unpaired
\* surrogates replaced by U+FFFD.
Unquote(s, i) ==
  LET b == s[i]
  IN  CASE b = 34 -> <<>>
        [] b = 92 ->
             LET e == s[i + 1]
             IN  CASE e = 98 -> <<8>> \o Unquote(s, i + 2)
                   [] e = 102 -> <<12>> \o Unquote(s, i + 2)
                   [] e = 110 -> <<10>> \o Unquote(s, i + 2)
                   [] e = 114 -> <<13>> \o Unquote(s, i + 2)
                   [] e = 116 -> <<9>> \o Unquote(s, i + 2)
                   [] e = 117 ->
                        LET r == U4(s, i + 2)
                            paired == /\ r >= 55296 /\ r <= 56319
                                      /\ HasLit(s, i + 6, <<92, 117>>)
                                      /\ Has4Hex(s, i + 8)
                                      /\ U4(s, i + 8) >= 56320 /\ U4(s, i + 8) <= 57343
                        IN  IF paired
                            THEN EncodeRune(65536 + 1024 * (r - 55296) + (U4(s, i + 8) - 56320))
                                   \o Unquote(s, i + 12)
                            ELSE IF IsSurrogate(r) THEN ReplacementChar \o Unquote(s, i + 6)
                            ELSE EncodeRune(r) \o Unquote(s, i + 6)
                   [] OTHER -> <<e>> \o Unquote(s, i + 2)
        [] b >= 128 ->
             LET w == RuneLen(s, i)
             IN  IF w = 0 THEN ReplacementChar \o Unquote(s, i + 1)
                 ELSE SubSeq(s, i, i + w - 1) \o Unquote(s, i + w)
        [] OTHER -> <<b>> \o Unquote(s, i + 1)

\* An ASCII letter in lower case, any other byte as it is.
Lower(b) == IF b >= 65 /\ b <= 90 THEN b + 32 ELSE b

\* Does the object key name the field tagged json:"query"?  The match is
\* exact or, failing that, case-insensitive.
IsQueryKey(key) == [k \in 1..Len(key) |-> Lower(key[k])] = queryKey

RECURSIVE DecodeMembers(_, _, _)
\* The members of a valid object from the key at i, decoded into acc, an
\* IncomingMessage with the error saved so far: a string value of a "query"
\* key sets Query, null leaves it, any other value is an
\* UnmarshalTypeError that is saved while decoding goes on.
DecodeMembers(s, i, acc) ==
  LET k == ScanString(s, i + 1)
      key == Unquote(s, i + 1)
      c == SkipSpace(s, k)
      v == SkipSpace(s, c + 1)
      ve == ScanValue(s, v)
      e == SkipSpace(s, ve)
      next == IF ~IsQueryKey(key) \/ s[v] = 110 THEN acc
              ELSE IF s[v] = 34 THEN [acc EXCEPT !.Query = Unquote(s, v + 1)]
              ELSE [acc EXCEPT !.err = IF acc.err = "nil" THEN "type" ELSE acc.err]
  IN  IF s[e] = 44 THEN DecodeMembers(s, SkipSpace(s, e + 1), next) ELSE next

\* json.Unmarshal(msg, &iMsg) on a zero IncomingMessage: the message and the
\* error ("nil", "syntax" or "type").  A syntax error leaves the message
\* untouched; a top-level value that is no object and not null is a type
\* error.
jsonUnmarshal(s) ==
  LET zero == [Query |-> <<>>, err |-> "nil"]
      i == SkipSpace(s, 1)
  IN  IF ~checkValid(s) THEN [zero EXCEPT !.err = "syntax"]
      ELSE IF s[i] = 110 THEN zero
      ELSE IF s[i] # 123 THEN [zero EXCEPT !.err = "type"]
      ELSE LET j == SkipSpace(s, i + 1)
           IN  IF s[j] = 125 THEN zero ELSE DecodeMembers(s, j, zero)

(***************************************************************************)
(* Bounds and inputs                                                       *)
(***************************************************************************)

\* The most writes the peer makes to standard input in one run.
MaxChunks == 2

\* The most HTTP requests in one run; they may all be in flight at once.
MaxReqs == 2

\* A query that is neither "ping" nor "hello".
zzz == Str(<<"z", "z", "z">>)

\* The JSON text {"query":"<q>"} of an incoming message, q plain ASCII.
Envelope(q) == <<123, 34>> \o queryKey \o <<34, 58, 34>> \o q \o <<34, 125>>

\* A frame as the peer writes it: the length header, then the payload.
Frame(order, payload) == encodeLength(order, Len(payload)) \o payload

\* What one write of the peer may carry: a whole frame for hello and for
\* zzz; the frame for ping cut after its header (the header, the payload)
\* or in the middle of its payload (the header with the first 8 payload
\* bytes, the last 8 payload bytes); a frame whose four payload bytes {"qu
\* are no JSON; and the first two bytes of a header.
Pieces(order) ==
  { Frame(order, Envelope(hello)),
    Frame(order, Envelope(zzz)),
    encodeLength(order, Len(Envelope(ping))),
    Envelope(ping),
    Take(Frame(order, Envelope(ping)), 12),
    Drop(Frame(order, Envelope(ping)), 12),
    Frame(order, Take(Envelope(ping), 4)),
    Take(encodeLength(order, Len(Envelope(ping))), 2) }

\* All sequences over S of length at most n.
SeqsUpTo(S, n) == UNION {[1..k -> S] : k \in 0..n}

\* The request bodies: empty, ping, hello, and a"< which json.Marshal escapes.
Bodies == {<<>>, ping, hello, <<97, 34, 60>>}

\* The HTTP requests: any path but /action is served by homeEndpoint; a
\* request to /action carries a body, or reading its body fails.
Requests ==
  {[path |-> "/", body |-> <<>>, readErr |-> FALSE],
   [path |-> "/action", body |-> <<>>, readErr |-> TRUE]}
    \cup {[path |-> "/action", body |-> b, readErr |-> FALSE] : b \in Bodies}

(***************************************************************************)
(* State                                                                   *)
(***************************************************************************)

VARIABLES
  nativeEndian,  \* the byte order Init detected
  intSize,       \* the width of int on the platform built for
  traceHandle,   \* where Trace writes: "file" (xcloudListener.log) or "Stdout"
  input,         \* what the peer does: [chunks, end], end "eof" or "err"
  sent,          \* how many chunks the peer has written
  closed,        \* the peer is done: reads past the data end as input.end says
  pipe,          \* bytes written to standard input and not yet read
  buf,           \* the unread bytes in the bufio.Reader s (s.buf[s.r:s.w])
  phase,         \* where the stdio loop is
  lengthBytes,   \* read's 4-byte header buffer, allocated once
  lengthNum,     \* read's decoded length
  content,       \* read's payload buffer: [len, data], the data read so far
                 \* followed by len - Len(data) zero bytes
  oMsg,          \* the OutgoingMessage parseMessage is sending
  sendPc,        \* the stdio send: "idle", or "message" once the length is out
  stdout,        \* the writes to standard output, in order
  dispatched,    \* history: the messages parseMessage handled
  accepted,      \* history: how many headers the loop accepted
  hdrRead,       \* history: the bytes each accepted header read returned
  ioErr,         \* history: where a read error other than EOF was raised
  reqs,          \* the HTTP requests: [pc, path, body, readErr, resp]
  codec          \* a length written and read back: [pc, n, hdr, out]

vars ==
  <<nativeEndian, intSize, traceHandle, input, sent, closed, pipe, buf, phase, lengthBytes,
    lengthNum, content, oMsg, sendPc, stdout, dispatched, accepted, hdrRead, ioErr, reqs,
    codec>>

procVars == <<nativeEndian, intSize, traceHandle, input>>
stdinVars == <<sent, closed, pipe>>
readVars ==
  <<buf, phase, lengthBytes, lengthNum, content, oMsg, sendPc, dispatched, accepted, hdrRead,
    ioErr>>

\* One write to standard output: who wrote it (<<"stdio", k>> for the loop's
\* k-th message, <<"http", r>> for request r, <<"main", 0>> for main), which part of what ("length"
\* and "message" of a frame, "trace" for a log line) and the bytes.  Of a log
\* line the bytes kept are its prefix; the date, the file and the text follow.
Write(by, part, bytes) == [by |-> by, part |-> part, bytes |-> bytes]

\* The writer id of main().
MainId == <<"main", 0>>

\* Trace.Print / Trace.Printf by `by`: a line on the trace handle, which is
\* standard output when main could not open the log file.
Trace(out, by) ==
  IF traceHandle = "Stdout" THEN Append(out, Write(by, "trace", tracePrefix)) ELSE out

\* writeMessageLength(byteMsg): binary.Write of uint32(len(msg)) to os.Stdout.
writeMessageLength(out, by, msg) ==
  Append(out, Write(by, "length", encodeLength(nativeEndian, Len(msg))))

\* The first half of send(msg): msgTextToBytes(msg.Response), then
\* writeMessageLength.
sendLength(out, by, msg) == writeMessageLength(out, by, msgTextToBytes(msg.Response))

\* A send that puts the query on the wire in place of the response.
sendMessageQuery(out, by, msg) == Append(out, Write(by, "message", msgTextToBytes(msg.Query)))

\* The second half of send(msg): msgBuf.WriteTo(os.Stdout) of the same bytes.
sendMessage(out, by, msg) == Append(out, Write(by, "message", msgTextToBytes(msg.Response)))

\* No length is being written and read back.
NoCodec == [pc |-> "off", n |-> Wide(0, 0), out |-> Wide(0, 0)]

(***************************************************************************)
(* Standard input and the buffered reader                                  *)
(***************************************************************************)

\* The peer writes its next chunk to standard input.
Deliver ==
  /\ sent < Len(input.chunks)
  /\ sent' = sent + 1
  /\ pipe' = pipe \o input.chunks[sent + 1]
  /\ UNCHANGED <<procVars, codec, closed, readVars, stdout, reqs>>

\* The peer has written everything and closes its end (or the descriptor
\* fails, when input.end is "err").
Close ==
  /\ sent = Len(input.chunks)
  /\ ~closed
  /\ closed' = TRUE
  /\ UNCHANGED <<procVars, codec, sent, pipe, readVars, stdout, reqs>>

\* os.Stdin.Read into n >= 1 bytes of room: what is there, at most n bytes;
\* with nothing there, EOF or the error once the peer is done.  Before that
\* the read blocks (CanRead).
osRead(n) ==
  IF pipe # <<>>
  THEN [data |-> Take(pipe, n), err |-> "nil", pipe |-> Drop(pipe, n)]
  ELSE [data |-> <<>>, err |-> IF input.end = "eof" THEN "EOF" ELSE "err", pipe |-> pipe]

\* s.Read(p) with len(p) = n, s the bufio.Reader of size bufferSize around
\* the default-sized one around os.Stdin.  At most one read of the
\* underlying stream, and never more than is buffered: with bytes in s.buf,
\* a copy of at most n of them; with s.buf empty, a read into p itself when
\* n >= bufferSize and else a read into s.buf and a copy of at most n bytes.
\* The inner reader always gets room for at least its own buffer's size, so
\* it passes every read through.  A read of no bytes returns 0, nil.
sRead(n) ==
  IF n = 0 THEN [data |-> <<>>, err |-> "nil", buf |-> buf, pipe |-> pipe]
  ELSE IF buf # <<>>
  THEN [data |-> Take(buf, n), err |-> "nil", buf |-> Drop(buf, n), pipe |-> pipe]
  ELSE IF n >= bufferSize
  THEN LET r == osRead(n)
       IN  [data |-> r.data, err |-> r.err, buf |-> <<>>, pipe |-> r.pipe]
  ELSE LET r == osRead(bufferSize)
       IN  [data |-> Take(r.data, n), err |-> r.err, buf |-> Drop(r.data, n), pipe |-> r.pipe]

\* s.Read(p) does not block: nothing to read for, bytes at hand, or the end.
CanRead(n) == n = 0 \/ buf # <<>> \/ pipe # <<>> \/ closed

(***************************************************************************)
(* The stdio loop: read, parseMessage, send                                *)
(***************************************************************************)

\* The writer id of the loop's current message.
StdioId == <<"stdio", Len(dispatched)>>

\* read() up to its loop: the readers are made, and a trace line says so.
StartRead ==
  /\ phase = "NotStarted"
  /\ phase' = "WaitingForHeader"
  /\ stdout' = Trace(stdout, <<"stdio", 0>>)
  /\ UNCHANGED <<procVars, codec, stdinVars, buf, lengthBytes, lengthNum, content, oMsg, sendPc,
                 dispatched, accepted, hdrRead, ioErr, reqs>>

\* The loop head, b, err := s.Read(lengthBytes), and on b > 0 && err == nil
\* the body up to content := make([]byte, lengthNum).  The bytes read
\* overwrite the first b bytes of lengthBytes; readMessageLength decodes all
\* four.  Otherwise the loop ends: "Stdin closed.".
ReadHeader ==
  /\ phase = "WaitingForHeader"
  /\ CanRead(4)
  /\ LET r == sRead(4)
         b == Len(r.data)
         hdr == r.data \o Drop(lengthBytes, b)
     IN  /\ buf' = r.buf
         /\ pipe' = r.pipe
         /\ IF b > 0 /\ r.err = "nil"
            THEN /\ lengthBytes' = hdr
                 /\ lengthNum' = IntOf(readMessageLength(nativeEndian, intSize, hdr))
                 /\ content' = [len |-> IntOf(readMessageLength(nativeEndian, intSize, hdr)),
                                  data |-> <<>>]
                 /\ phase' = "ReadingPayload"
                 /\ stdout' = Trace(stdout, StdioId)
                 /\ accepted' = accepted + 1
                 /\ hdrRead' = Append(hdrRead, r.data)
                 /\ ioErr' = ioErr
            ELSE /\ phase' = "Closed"
                 /\ stdout' = Trace(stdout, StdioId)
                 /\ ioErr' = IF r.err = "err" THEN "header" ELSE ioErr
                 /\ UNCHANGED <<lengthBytes, lengthNum, content, accepted, hdrRead>>
  /\ UNCHANGED <<procVars, codec, sent, closed, oMsg, sendPc, dispatched, reqs>>

\* The test with its comparison turned around: err != nil && err == io.EOF.
IsFatalOnEOF(err) == err # "nil" /\ err = "EOF"

\* The test without its second half: if err != nil.
IsFatalAny(err) == err # "nil"

\* Is an error of the payload read fatal?  if err != nil && err != io.EOF.
IsFatal(err) == err # "nil" /\ err # "EOF"

\* _, err := s.Read(content): the bytes read fill the front of content.  Any
\* error but EOF is fatal (Error.Fatal logs to the error handle and exits).
ReadPayload ==
  /\ phase = "ReadingPayload"
  /\ CanRead(lengthNum)
  /\ LET r == sRead(lengthNum)
     IN  /\ buf' = r.buf
         /\ pipe' = r.pipe
         /\ content' = [content EXCEPT !.data = r.data]
         /\ phase' = IF IsFatal(r.err) THEN "Fatal" ELSE "Dispatching"
         /\ ioErr' = IF r.err = "err" THEN "payload" ELSE ioErr
  /\ UNCHANGED <<procVars, codec, sent, closed, lengthBytes, lengthNum, oMsg, sendPc, stdout,
                 dispatched, accepted, hdrRead, reqs>>

\* A decodeMessage that on a syntax error returns the raw text as the query.
decodeMessageRaw(msg) ==
  IF msg.len > Len(msg.data) \/ ~checkValid(msg.data)
  THEN [Query |-> msg.data, err |-> "syntax"]
  ELSE jsonUnmarshal(msg.data)

\* decodeMessage: json.Unmarshal into a zero IncomingMessage; an error is
\* logged and the message returned as it is.  A buffer that was not filled
\* ends in zero bytes, which no JSON text may hold: a syntax error.
decodeMessage(msg) ==
  IF msg.len > Len(msg.data)
  THEN [Query |-> <<>>, err |-> "syntax"]
  ELSE jsonUnmarshal(msg.data)

\* The switch without its case "hello".
RespondNoHello(query) ==
  CASE query = ping -> pong
    [] OTHER -> fortyTwo

\* The switch of parseMessage: the response to a query.
Respond(query) ==
  CASE query = ping -> pong
    [] query = hello -> goodbye
    [] OTHER -> fortyTwo

\* parseMessage up to send's first write: the message is decoded, a trace
\* line shows it, the response is chosen and the length header goes out.
Dispatch ==
  /\ phase = "Dispatching"
  /\ sendPc = "idle"
  /\ LET iMsg == decodeMessage(content)
         msg == [Query |-> iMsg.Query, Response |-> Respond(iMsg.Query)]
         by == <<"stdio", Len(dispatched) + 1>>
     IN  /\ oMsg' = msg
         /\ dispatched' = Append(dispatched, [content |-> content, err |-> iMsg.err, msg |-> msg])
         /\ stdout' = sendLength(Trace(stdout, by), by, msg)
  /\ sendPc' = "message"
  /\ UNCHANGED <<procVars, codec, stdinVars, buf, phase, lengthBytes, lengthNum, content, accepted, hdrRead,
                 ioErr, reqs>>

\* send's second write, the message bytes; the loop goes back to its head.
SendMessage ==
  /\ phase = "Dispatching"
  /\ sendPc = "message"
  /\ stdout' = sendMessage(stdout, StdioId, oMsg)
  /\ sendPc' = "idle"
  /\ phase' = "WaitingForHeader"
  /\ UNCHANGED <<procVars, codec, stdinVars, buf, lengthBytes, lengthNum, content, oMsg, dispatched,
                 accepted, hdrRead, ioErr, reqs>>

(***************************************************************************)
(* read() on a standard input fed by a peer                                *)
(***************************************************************************)

\* The state as read() is called: Init has set the loggers and the byte
\* order; the peer is about to write any chunks and then ends the stream.
\* Every length in these runs is below 2^31, where an int of 32 bits and one
\* of 64 bits hold the same number; the runs are those of the wider int.
InitRead ==
  /\ nativeEndian \in ByteOrders
  /\ intSize = 64
  /\ traceHandle \in {"file", "Stdout"}
  /\ \E cs \in SeqsUpTo(Pieces(nativeEndian), MaxChunks), e \in {"eof", "err"} :
       input = [chunks |-> cs, end |-> e]
  /\ sent = 0
  /\ closed = FALSE
  /\ pipe = <<>>
  /\ buf = <<>>
  /\ phase = "NotStarted"
  /\ lengthBytes = Zeros(4)
  /\ lengthNum = 0
  /\ content = [len |-> 0, data |-> <<>>]
  /\ oMsg = [Query |-> <<>>, Response |-> <<>>]
  /\ sendPc = "idle"
  /\ stdout = <<>>
  /\ dispatched = <<>>
  /\ accepted = 0
  /\ hdrRead = <<>>
  /\ ioErr = "none"
  /\ reqs = [r \in 1..MaxReqs |-> [pc |-> "idle", path |-> "/", body |-> <<>>,
                                    readErr |-> FALSE, resp |-> <<>>]]
  /\ codec = NoCodec

NextRead ==
  \/ Deliver
  \/ Close
  \/ StartRead
  \/ ReadHeader
  \/ ReadPayload
  \/ Dispatch
  \/ SendMessage

SpecRead == InitRead /\ [][NextRead]_vars

\* Where the loop can be.
Phases ==
  {"NotStarted", "WaitingForHeader", "ReadingPayload", "Dispatching", "Closed", "Fatal"}

\* The loop can take a step: it is not blocked in a read and has not ended.
LoopCanStep ==
  \/ phase = "NotStarted"
  \/ phase = "WaitingForHeader" /\ CanRead(4)
  \/ phase = "ReadingPayload" /\ CanRead(lengthNum)
  \/ phase = "Dispatching"

\* The loop moves on from where it is: every step of read() changes phase
\* or sendPc, and nothing else changes them.
LoopTurn == LoopCanStep /\ phase' \in Phases /\ sendPc' \in {"idle", "message"}

\* read() runs in a thread of its own that is scheduled whenever it can
\* take a step: the loop does not stand still for ever where it can move.
\* Nothing is asked of the peer.
FairSpecRead == SpecRead /\ WF_<<phase, sendPc>>(LoopTurn)

(***************************************************************************)
(* read() fed frames longer than the reader's buffer                       *)
(***************************************************************************)

\* A declared length beyond bufferSize.
OversizeLen == bufferSize + 8

\* A payload of that length: the letter a, OversizeLen times.
OversizePayload == [i \in 1..OversizeLen |-> 97]

\* What one write of the peer may carry here: the oversize frame whole, its
\* header alone, its payload alone, and the frame for hello.
OversizePieces(order) ==
  { Frame(order, OversizePayload),
    encodeLength(order, OversizeLen),
    OversizePayload,
    Frame(order, Envelope(hello)) }

\* The state as read() is called, the peer about to write such pieces.
InitOversize ==
  /\ nativeEndian \in ByteOrders
  /\ intSize \in IntSizes
  /\ traceHandle \in {"file", "Stdout"}
  /\ \E cs \in SeqsUpTo(OversizePieces(nativeEndian), MaxChunks), e \in {"eof", "err"} :
       input = [chunks |-> cs, end |-> e]
  /\ sent = 0
  /\ closed = FALSE
  /\ pipe = <<>>
  /\ buf = <<>>
  /\ phase = "NotStarted"
  /\ lengthBytes = Zeros(4)
  /\ lengthNum = 0
  /\ content = [len |-> 0, data |-> <<>>]
  /\ oMsg = [Query |-> <<>>, Response |-> <<>>]
  /\ sendPc = "idle"
  /\ stdout = <<>>
  /\ dispatched = <<>>
  /\ accepted = 0
  /\ hdrRead = <<>>
  /\ ioErr = "none"
  /\ reqs = [r \in 1..MaxReqs |-> [pc |-> "idle", path |-> "/", body |-> <<>>,
                                    readErr |-> FALSE, resp |-> <<>>]]
  /\ codec = NoCodec

SpecOversize == InitOversize /\ [][NextRead]_vars

(***************************************************************************)
(* The length header written and read back                                 *)
(***************************************************************************)

\* The lengths tried: for each value of bit 31, the ends of the ranges of
\* one, two, three and four bytes, bufferSize, and a number whose four
\* bytes all differ (0x12345678).
Lengths ==
  {Wide(h, l) : h \in {0, 1},
                l \in {0, 1, 255, 256, 8192, 65535, 65536, 16777215, 16777216,
                       305419896, 2147483647}}

\* A process on some platform is about to write the header of a message of
\* codec.n bytes; nothing else goes on.  The length of a message is an int:
\* it is below 2^31 where int has 32 bits.
InitLen ==
  /\ nativeEndian \in ByteOrders
  /\ intSize \in IntSizes
  /\ traceHandle = "file"
  /\ input = [chunks |-> <<>>, end |-> "eof"]
  /\ sent = 0
  /\ closed = FALSE
  /\ pipe = <<>>
  /\ buf = <<>>
  /\ phase = "NotStarted"
  /\ lengthBytes = Zeros(4)
  /\ lengthNum = 0
  /\ content = [len |-> 0, data |-> <<>>]
  /\ oMsg = [Query |-> <<>>, Response |-> <<>>]
  /\ sendPc = "idle"
  /\ stdout = <<>>
  /\ dispatched = <<>>
  /\ accepted = 0
  /\ hdrRead = <<>>
  /\ ioErr = "none"
  /\ reqs = [r \in 1..MaxReqs |-> [pc |-> "idle", path |-> "/", body |-> <<>>,
                                    readErr |-> FALSE, resp |-> <<>>]]
  /\ \E n \in Lengths :
       /\ intSize = 32 => n.hi = 0
       /\ codec = [pc |-> "write", n |-> n, out |-> Wide(0, 0)]

\* writeMessageLength for a message of codec.n bytes: binary.Write of its
\* four-byte header to standard output.
WriteLength ==
  /\ codec.pc = "write"
  /\ stdout' = Append(stdout, Write(MainId, "length", binaryWrite(nativeEndian, codec.n)))
  /\ codec' = [codec EXCEPT !.pc = "read"]
  /\ UNCHANGED <<procVars, stdinVars, readVars, reqs>>

\* readMessageLength of the four bytes just written, in the same process.
ReadLength ==
  /\ codec.pc = "read"
  /\ codec' = [codec EXCEPT
                 !.out = readMessageLength(nativeEndian, intSize, stdout[Len(stdout)].bytes),
                 !.pc = "done"]
  /\ UNCHANGED <<procVars, stdinVars, readVars, stdout, reqs>>

NextLen ==
  \/ WriteLength
  \/ ReadLength

SpecLen == InitLen /\ [][NextLen]_vars

(***************************************************************************)
(* The HTTP handlers: homeEndpoint, actionEndpoint, performAction          *)
(***************************************************************************)

\* The writer id of request r.
HttpId(r) == <<"http", r>>

\* A request reaches the server, which runs its handler in a goroutine of
\* its own.  Requests are numbered in the order they arrive.
Arrive(r) ==
  /\ reqs[r].pc = "idle"
  /\ IF r = 1 THEN TRUE ELSE reqs[r - 1].pc # "idle"
  /\ \E q \in Requests :
       reqs' = [reqs EXCEPT ![r] = [pc |-> "handler", path |-> q.path, body |-> q.body,
                                    readErr |-> q.readErr, resp |-> <<>>]]
  /\ UNCHANGED <<procVars, codec, stdinVars, readVars, stdout>>

\* homeEndpoint: the fixed text to the response, a trace line.
homeEndpoint(r) ==
  /\ reqs[r].pc = "handler"
  /\ reqs[r].path # "/action"
  /\ reqs' = [reqs EXCEPT ![r].resp = homeBody, ![r].pc = "done"]
  /\ stdout' = Trace(stdout, HttpId(r))
  /\ UNCHANGED <<procVars, codec, stdinVars, readVars>>

\* A performAction that answers as parseMessage does.
performActionMapped(action) == [Query |-> action, Response |-> Respond(action)]

\* The message performAction sends for a non-empty action.
performActionMsg(action) == [Query |-> action, Response |-> action]

\* A handler that keeps the message it sends in the variable the loop keeps
\* its own in, as if msg were a variable of the package.
actionEndpointShared(r) ==
  /\ reqs[r].pc = "handler"
  /\ reqs[r].path = "/action"
  /\ stdout' = Trace(stdout, HttpId(r))
  /\ IF reqs[r].readErr \/ reqs[r].body = <<>>
     THEN /\ reqs' = [reqs EXCEPT ![r].pc = "done"]
          /\ oMsg' = oMsg
     ELSE /\ reqs' = [reqs EXCEPT ![r].pc = "send"]
          /\ oMsg' = performActionMsg(reqs[r].body)
  /\ UNCHANGED <<procVars, codec, stdinVars, buf, phase, lengthBytes, lengthNum, content,
                 sendPc, dispatched, accepted, hdrRead, ioErr>>

\* actionEndpoint and performAction up to the call of send.  A body that
\* cannot be read and an empty body each end the handler with a trace line.
\* Any other body is traced ("Performing action") and the message is built.
\* Every write of a handler to standard output is a step of its own: the
\* handlers of other requests run between any two of them.
actionEndpoint(r) ==
  /\ reqs[r].pc = "handler"
  /\ reqs[r].path = "/action"
  /\ stdout' = Trace(stdout, HttpId(r))
  /\ IF reqs[r].readErr \/ reqs[r].body = <<>>
     THEN reqs' = [reqs EXCEPT ![r].pc = "done"]
     ELSE reqs' = [reqs EXCEPT ![r].pc = "send"]
  /\ UNCHANGED <<procVars, codec, stdinVars, readVars>>

\* send's first write for request r: the length header of the message.
httpSendLength(r) ==
  /\ reqs[r].pc = "send"
  /\ stdout' = sendLength(stdout, HttpId(r), performActionMsg(reqs[r].body))
  /\ reqs' = [reqs EXCEPT ![r].pc = "message"]
  /\ UNCHANGED <<procVars, codec, stdinVars, readVars>>

\* send's second write for request r: the message bytes.  send returns.
httpSendMessage(r) ==
  /\ reqs[r].pc = "message"
  /\ stdout' = sendMessage(stdout, HttpId(r), performActionMsg(reqs[r].body))
  /\ reqs' = [reqs EXCEPT ![r].pc = "traceQuery"]
  /\ UNCHANGED <<procVars, codec, stdinVars, readVars>>

\* The rest of performAction: the trace line of msg.Query, then the trace
\* line of msg.Response, after which the handler returns.
performActionTrace(r) ==
  /\ reqs[r].pc \in {"traceQuery", "traceResponse"}
  /\ stdout' = Trace(stdout, HttpId(r))
  /\ reqs' = [reqs EXCEPT ![r].pc = IF reqs[r].pc = "traceQuery" THEN "traceResponse"
                                                                  ELSE "done"]
  /\ UNCHANGED <<procVars, codec, stdinVars, readVars>>

(***************************************************************************)
(* The process as main() runs it                                           *)
(***************************************************************************)

\* The state once main() has called Init and handleRequests is serving.
\* The log file could be opened or not; the peer is about to write a frame
\* to standard input.  main() has traced that the host started, a line that
\* is on standard output when the log file could not be opened.  main() does
\* not call read(): the stdio loop is not started, and nothing in
\* handleRequests starts it.
Init ==
  /\ nativeEndian \in ByteOrders
  /\ intSize = 64
  /\ traceHandle \in {"file", "Stdout"}
  /\ input = [chunks |-> <<Frame(nativeEndian, Envelope(ping))>>, end |-> "eof"]
  /\ sent = 0
  /\ closed = FALSE
  /\ pipe = <<>>
  /\ buf = <<>>
  /\ phase = "NotStarted"
  /\ lengthBytes = Zeros(4)
  /\ lengthNum = 0
  /\ content = [len |-> 0, data |-> <<>>]
  /\ oMsg = [Query |-> <<>>, Response |-> <<>>]
  /\ sendPc = "idle"
  /\ stdout = Trace(<<>>, MainId)
  /\ dispatched = <<>>
  /\ accepted = 0
  /\ hdrRead = <<>>
  /\ ioErr = "none"
  /\ reqs = [r \in 1..MaxReqs |-> [pc |-> "idle", path |-> "/", body |-> <<>>,
                                    readErr |-> FALSE, resp |-> <<>>]]
  /\ codec = NoCodec

Next ==
  \/ Deliver
  \/ Close
  \/ \E r \in 1..MaxReqs : Arrive(r)
  \/ \E r \in 1..MaxReqs : homeEndpoint(r)
  \/ \E r \in 1..MaxReqs : actionEndpoint(r)
  \/ \E r \in 1..MaxReqs : httpSendLength(r)
  \/ \E r \in 1..MaxReqs : httpSendMessage(r)
  \/ \E r \in 1..MaxReqs : performActionTrace(r)

Spec == Init /\ [][Next]_vars

(***************************************************************************)
(* read() and handleRequests() called side by side                         *)
(***************************************************************************)

\* The state when read() and handleRequests() have both been called, each
\* in a goroutine of its own: the loop is about to start, the peer is about
\* to write the frame for hello and to close the stream, requests are about
\* to arrive.  main() as written calls handleRequests() only; this is the
\* two functions run together, the log file opened.
InitBoth ==
  /\ nativeEndian \in ByteOrders
  /\ intSize = 64
  /\ traceHandle = "file"
  /\ input = [chunks |-> <<Frame(nativeEndian, Envelope(hello))>>, end |-> "eof"]
  /\ sent = 0
  /\ closed = FALSE
  /\ pipe = <<>>
  /\ buf = <<>>
  /\ phase = "NotStarted"
  /\ lengthBytes = Zeros(4)
  /\ lengthNum = 0
  /\ content = [len |-> 0, data |-> <<>>]
  /\ oMsg = [Query |-> <<>>, Response |-> <<>>]
  /\ sendPc = "idle"
  /\ stdout = <<>>
  /\ dispatched = <<>>
  /\ accepted = 0
  /\ hdrRead = <<>>
  /\ ioErr = "none"
  /\ reqs = [r \in 1..MaxReqs |-> [pc |-> "idle", path |-> "/", body |-> <<>>,
                                    readErr |-> FALSE, resp |-> <<>>]]
  /\ codec = NoCodec

\* The steps of read() and the steps of the handlers, in any order.
NextBoth ==
  \/ Deliver
  \/ Close
  \/ StartRead
  \/ ReadHeader
  \/ ReadPayload
  \/ Dispatch
  \/ SendMessage
  \/ \E r \in 1..MaxReqs : Arrive(r)
  \/ \E r \in 1..MaxReqs : homeEndpoint(r)
  \/ \E r \in 1..MaxReqs : actionEndpoint(r)
  \/ \E r \in 1..MaxReqs : httpSendLength(r)
  \/ \E r \in 1..MaxReqs : httpSendMessage(r)
  \/ \E r \in 1..MaxReqs : performActionTrace(r)

SpecBoth == InitBoth /\ [][NextBoth]_vars

(***************************************************************************)
(* Properties of the output stream                                         *)
(***************************************************************************)

\* The frame writes of a stream of writes: the trace lines left out.
FrameWrites(out) == SelectSeq(out, LAMBDA w : w.part # "trace")

\* The writes of one writer.
WritesBy(out, by) == SelectSeq(out, LAMBDA w : w.by = by)

\* Does request r carry an action: a body that was read and is not empty?
HasAction(r) == reqs[r].path = "/action" /\ ~reqs[r].readErr /\ reqs[r].body # <<>>

\* C1: in every reachable state the frames on standard output are well
\* formed: every length header is followed at once by a payload of exactly
\* the length it states (the last header may still wait for its payload),
\* and every payload follows a header.  Trace lines are left out of the
\* stream here, so a violation shows frames cutting into each other.
C1_WellFramed ==
  LET fs == FrameWrites(stdout)
  IN  \A i \in 1..Len(fs) :
        /\ fs[i].part = "length" /\ i < Len(fs)
             => /\ fs[i + 1].part = "message"
                /\ readMessageLength(nativeEndian, intSize, fs[i].bytes) = uint32(Len(fs[i + 1].bytes))
        /\ fs[i].part = "message" => i > 1 /\ fs[i - 1].part = "length"

\* C2: send writes header and payload as one logical write: between the
\* header of one send and its payload no other send's bytes appear.
C2_SingleWrite ==
  \A i \in 1..Len(stdout) : \A j \in 1..Len(stdout) :
    /\ i < j
    /\ stdout[i].part = "length"
    /\ stdout[j].part # "trace"
    /\ stdout[j].by # stdout[i].by
    => \E k \in (i + 1)..(j - 1) : stdout[k].part = "message" /\ stdout[k].by = stdout[i].by

\* C3: once the process serves, the stdio loop is an active context too: a
\* frame the peer has delivered on standard input finds the loop started.
C3_LoopActive == sent >= 1 => phase # "NotStarted"

\* C8: a request to /action with a non-empty body b puts exactly one frame
\* on standard output, and it carries b itself, also when b is ping or
\* hello: the length header of the JSON string of b, then that string.
C8_Echo ==
  \A r \in 1..MaxReqs :
    HasAction(r) /\ reqs[r].pc = "done"
    => LET ws == FrameWrites(WritesBy(stdout, HttpId(r)))
           b == reqs[r].body
           text == IF b \in {ping, hello} THEN <<34>> \o b \o <<34>> ELSE jsonMarshalString(b)
       IN  /\ Len(ws) = 2
           /\ ws[1].part = "length" /\ ws[1].bytes = encodeLength(nativeEndian, Len(text))
           /\ ws[2].part = "message" /\ ws[2].bytes = text

\* C8 witness: a request with body ping is done, its frame "ping" is out.
C8_Witness ==
  \E r \in 1..MaxReqs :
    /\ reqs[r].pc = "done" /\ reqs[r].body = ping
    /\ \E i \in 1..Len(stdout) :
         stdout[i] = Write(HttpId(r), "message", <<34>> \o ping \o <<34>>)

\* C9: a request without an action (the home route, an empty body, a body
\* that cannot be read) writes nothing to standard output: every write of
\* an HTTP handler there is by a request that carries an action.
C9_NoActionNoOutput ==
  \A i \in 1..Len(stdout) : \A r \in 1..MaxReqs :
    stdout[i].by = HttpId(r) => HasAction(r)

(***************************************************************************)
(* Properties of the stdio loop                                            *)
(***************************************************************************)

\* All the bytes the peer writes in the run.
InputBytes == Flatten(input.chunks)

RECURSIVE SplitFrames(_)
\* The byte stream b cut into frames by its length headers: [ok, payloads],
\* ok when b is a run of whole frames, none longer than bufferSize.
SplitFrames(b) ==
  IF b = <<>> THEN [ok |-> TRUE, payloads |-> <<>>]
  ELSE IF Len(b) < 4 THEN [ok |-> FALSE, payloads |-> <<>>]
  ELSE LET n == IntOf(readMessageLength(nativeEndian, intSize, Take(b, 4)))
       IN  IF n > bufferSize \/ Len(b) < 4 + n THEN [ok |-> FALSE, payloads |-> <<>>]
           ELSE LET rest == SplitFrames(Drop(b, 4 + n))
                IN  [ok |-> rest.ok, payloads |-> <<SubSeq(b, 5, 4 + n)>> \o rest.payloads]

\* The input is a run of well-formed frames: whole frames whose payloads
\* are JSON objects that decode without error.
WellFormedInput ==
  LET f == SplitFrames(InputBytes)
  IN  /\ f.ok
      /\ \A i \in 1..Len(f.payloads) :
           checkValid(f.payloads[i]) /\ jsonUnmarshal(f.payloads[i]).err = "nil"

\* The response the specification gives to a query.
Mapped(q) == IF q = ping THEN pong ELSE IF q = hello THEN goodbye ELSE fortyTwo

RECURSIVE ExpectedOutput(_)
\* The output the specification gives for a run of payloads: per payload one
\* frame, the JSON string of the mapped response behind its length.
ExpectedOutput(payloads) ==
  IF payloads = <<>> THEN <<>>
  ELSE LET text == <<34>> \o Mapped(jsonUnmarshal(Head(payloads)).Query) \o <<34>>
       IN  encodeLength(nativeEndian, Len(text)) \o text \o ExpectedOutput(Tail(payloads))

RECURSIVE StreamBytes(_)
\* The bytes of a sequence of writes, in order.
StreamBytes(ws) == IF ws = <<>> THEN <<>> ELSE Head(ws).bytes \o StreamBytes(Tail(ws))

\* C4: a frame of at most bufferSize payload bytes written to the stream
\* and read back by the loop hands exactly its payload to parseMessage,
\* however the stream delivers the bytes.  Stated for the first frame of a
\* well-formed input.
C4_RoundTrip ==
  LET f == SplitFrames(InputBytes)
  IN  WellFormedInput /\ Len(f.payloads) >= 1 /\ Len(dispatched) >= 1
      => dispatched[1].content = [len |-> Len(f.payloads[1]), data |-> f.payloads[1]]

\* C5: a run of well-formed frames fed to the loop gives, once the loop has
\* closed, exactly one frame per input frame on standard output, in order,
\* each the length-prefixed JSON string of the mapped response.
C5_EndToEnd ==
  WellFormedInput /\ input.end = "eof" /\ phase = "Closed"
  => StreamBytes(FrameWrites(stdout)) = ExpectedOutput(SplitFrames(InputBytes).payloads)

\* C6: the response of every message the loop handled is the mapping of its
\* query alone, whatever was handled before it: pong for ping, goodbye for
\* hello, 42 for anything else, the empty query included.
C6_Mapping ==
  \A i \in 1..Len(dispatched) :
    LET m == dispatched[i].msg
    IN  /\ m.Query = ping => m.Response = pong
        /\ m.Query = hello => m.Response = goodbye
        /\ m.Query \notin {ping, hello} => m.Response = fortyTwo

\* C6 witness: hello was answered with goodbye and then zzz with 42.
C6_Witness ==
  /\ Len(dispatched) = 2
  /\ dispatched[1].msg = [Query |-> hello, Response |-> goodbye]
  /\ dispatched[2].msg = [Query |-> zzz, Response |-> fortyTwo]

\* The buffer handed to parseMessage is no JSON text.
NotJSON(c) == c.len > Len(c.data) \/ ~checkValid(c.data)

\* C7, in every state: a payload that is no JSON was decoded to the empty
\* query and answered with 42; the length header of "42" is out and, unless
\* the send is still between its two writes, so is the text "42".
C7_Degraded ==
  \A k \in 1..Len(dispatched) :
    NotJSON(dispatched[k].content)
    => /\ dispatched[k].msg = [Query |-> <<>>, Response |-> fortyTwo]
       /\ \E i \in 1..Len(stdout) :
            stdout[i] = Write(<<"stdio", k>>, "length", encodeLength(nativeEndian, 4))
       /\ IF k = Len(dispatched) /\ sendPc = "message"
          THEN phase = "Dispatching" /\ ENABLED SendMessage
          ELSE \E i \in 1..Len(stdout) :
                 stdout[i] = Write(<<"stdio", k>>, "message", <<34, 52, 50, 34>>)

\* C7, in every step: while such a payload is being handled the loop stays
\* in Dispatching, and it leaves it only for WaitingForHeader; it never
\* stops or ends the process there.
C7_LoopGoesOn ==
  phase = "Dispatching" /\ NotJSON(content)
  => \/ phase' = "Dispatching"
     \/ phase' = "WaitingForHeader" /\ sendPc' = "idle"

\* C7: a payload that is not valid JSON never ends the process or stops the
\* loop: it is decoded to the empty query, answered with a frame "42", and
\* the loop returns to waiting for the next header.
C7_MalformedJSON == []C7_Degraded /\ [][C7_LoopGoesOn]_vars

\* C7 witness: the payload {"qu was answered with "42" and the loop waits
\* for the next header.
C7_Witness ==
  /\ phase = "WaitingForHeader"
  /\ Len(dispatched) = 1
  /\ dispatched[1].content = [len |-> 4, data |-> Take(Envelope(ping), 4)]
  /\ FrameWrites(stdout)[2] = Write(<<"stdio", 1>>, "message", <<34, 52, 50, 34>>)

\* The frames written and the messages handled agree, nothing is in flight.
NothingSince == sendPc = "idle" /\ Len(FrameWrites(stdout)) = 2 * Len(dispatched)

\* C10: any read error other than end-of-stream, at the header or in the
\* payload, ends the process fatally, not in Closed, and no frame is written
\* for the frame being read.  (The loop condition b > 0 && err == nil leaves
\* the loop on a header read error as on end-of-stream, so the violation is
\* a header error that ends in Closed.)
C10_AnyErrorFatal == ioErr # "none" => phase = "Fatal" /\ NothingSince

(***************************************************************************)
(* Properties of the length header                                         *)
(***************************************************************************)

\* C12: for every n from 0 to 2^32 - 1 that a message's length can be,
\* reading back the header written for a length n gives n, writer and
\* reader being the same process with its one byte order.
C12_LengthRoundTrip == codec.pc = "done" => codec.out = codec.n

\* C12 witness: a length with bit 31 set and four bytes that all differ
\* (0x92345678) came back as written, on a big-endian platform.
C12_Witness ==
  /\ codec.pc = "done"
  /\ nativeEndian = "BigEndian"
  /\ codec.n = Wide(1, 305419896)
  /\ stdout = <<Write(MainId, "length", <<146, 52, 86, 120>>)>>
  /\ codec.out = codec.n

(***************************************************************************)
(* Properties of the header read                                           *)
(***************************************************************************)

\* C13: the loop takes exactly 4 bytes for each length header before it
\* decodes it: every header accepted was read as 4 bytes, so that a stream
\* that ends with fewer than 4 header bytes at hand closes the loop with no
\* message dispatched and no frame written for them.
C13_WholeHeader == \A k \in 1..Len(hdrRead) : Len(hdrRead[k]) = 4

\* The length the bytes of a header read decode to when nothing came before
\* them: in the first iteration of a run lengthBytes is still all zero.
FreshLength(bytes) ==
  IntOf(readMessageLength(nativeEndian, intSize, bytes \o Zeros(4 - Len(bytes))))

\* C14: nothing but the read cursor is carried from one frame read to the
\* next: the length decoded in an iteration is a function of the bytes that
\* iteration took from the stream, the same whatever frames came before.
C14_NoCarriedState == accepted >= 1 => lengthNum = FreshLength(hdrRead[accepted])

(***************************************************************************)
(* The life of the stdio loop                                              *)
(***************************************************************************)

\* The steps of the loop's cycle, and the two ways out of it.
CycleSteps ==
  { <<"NotStarted", "WaitingForHeader">>,
    <<"WaitingForHeader", "ReadingPayload">>,
    <<"ReadingPayload", "Dispatching">>,
    <<"Dispatching", "WaitingForHeader">>,
    <<"WaitingForHeader", "Closed">>,
    <<"ReadingPayload", "Fatal">> }

\* The phase changes along the cycle only, and to Fatal only on a read error.
C15_Cycle ==
  phase' # phase =>
    /\ <<phase, phase'>> \in CycleSteps
    /\ phase' = "Fatal" => ioErr' = "payload"

\* Closed is final: no read, no dispatch and no write of the loop after it.
C15_ClosedIsFinal ==
  phase = "Closed" =>
    /\ phase' = "Closed"
    /\ UNCHANGED <<pipe, buf, lengthBytes, content, dispatched, accepted, sendPc, stdout>>

\* C15: the loop goes WaitingForHeader, ReadingPayload, Dispatching and
\* back; once standard input is closed (end of stream) it reaches Closed
\* after finitely many steps, and once in Closed it stays there and reads,
\* dispatches and writes nothing more.
C15_ReachesClosed ==
  /\ [][C15_Cycle]_vars
  /\ [][C15_ClosedIsFinal]_vars
  /\ (closed /\ input.end = "eof") ~> (phase = "Closed")

\* C15 witness: the loop went through its cycle twice, then the stream
\* ended and the loop closed.
C15_Witness ==
  phase = "Closed" /\ input.end = "eof" /\ Len(dispatched) = 2 /\ Len(FrameWrites(stdout)) = 4

(***************************************************************************)
(* Frames longer than the buffer                                           *)
(***************************************************************************)

\* C16: of a frame that declares more than bufferSize bytes the loop takes
\* at most bufferSize bytes of payload, and dispatches the content so cut.
C16_AtMostBufferSize ==
  \A k \in 1..Len(dispatched) :
    dispatched[k].content.len > bufferSize =>
      Len(dispatched[k].content.data) <= bufferSize

(***************************************************************************)
(* What send puts on the wire                                              *)
(***************************************************************************)

\* The messages of the loop whose send is over.
Sent == {k \in 1..Len(dispatched) : k < Len(dispatched) \/ sendPc = "idle"}

\* The bytes of the frame the loop wrote for its k-th message.
FrameBytes(k) == StreamBytes(FrameWrites(WritesBy(stdout, <<"stdio", k>>)))

\* C17: the payload of a frame send writes is the JSON encoding of the
\* message's response and of nothing else: the frame is the length of that
\* text and the text, and two messages with the same response and different
\* queries give the same bytes.
C17_ResponseOnly ==
  /\ \A k \in Sent :
       LET text == jsonMarshalString(dispatched[k].msg.Response)
       IN  FrameBytes(k) = encodeLength(nativeEndian, Len(text)) \o text
  /\ \A j, k \in Sent :
       dispatched[j].msg.Response = dispatched[k].msg.Response => FrameBytes(j) = FrameBytes(k)

\* C17 witness: the queries of two messages differ (zzz and the empty query),
\* the response of both is 42, and both frames are the four bytes "42"
\* after their length.
C17_Witness ==
  /\ Sent = {1, 2}
  /\ dispatched[1].msg.Query = zzz
  /\ dispatched[2].msg.Query = <<>>
  /\ dispatched[1].msg.Response = dispatched[2].msg.Response
  /\ FrameBytes(2) = encodeLength(nativeEndian, 4) \o <<34, 52, 50, 34>>

(***************************************************************************)
(* One frame for each header                                               *)
(***************************************************************************)

\* How many writes of the given part the loop has made.
LoopWrites(part) ==
  Len(SelectSeq(stdout, LAMBDA w : w.by[1] = "stdio" /\ w.part = part))

\* C18: every iteration of the loop that got a header and did not end in a
\* fatal read error writes exactly one frame: between iterations, and in
\* Closed, the loop has written as many frames as it accepted headers; in
\* an iteration, and in Fatal, one fewer; only a read error is fatal, so
\* that a stream that ends within a payload still gets its frame.
C18_FramePerHeader ==
  /\ phase \in {"NotStarted", "WaitingForHeader", "Closed"} =>
       LoopWrites("length") = accepted /\ LoopWrites("message") = accepted
  /\ phase \in {"ReadingPayload", "Dispatching", "Fatal"} =>
       LoopWrites("message") = accepted - 1
  /\ phase = "Fatal" => ioErr = "payload" /\ LoopWrites("length") = accepted - 1

\* C18 witness: the stream ended cleanly after a header and half of its
\* payload; the frame for the incomplete content was written ("42") and the
\* loop closed.
C18_Witness ==
  /\ phase = "Closed"
  /\ input.end = "eof"
  /\ accepted = 1
  /\ dispatched[1].content = [len |-> 16, data |-> Take(Envelope(ping), 8)]
  /\ FrameBytes(1) = encodeLength(nativeEndian, 4) \o <<34, 52, 50, 34>>

(***************************************************************************)
(* The loop and the handlers keep to themselves                            *)
(***************************************************************************)

\* A step of an HTTP handler (each changes reqs) leaves the loop alone: its
\* phase, the stream and the reader's buffer, the header and the content
\* being read, its message, and the byte order.
C19_HttpLeavesLoop ==
  reqs' # reqs =>
    UNCHANGED <<phase, sendPc, pipe, buf, lengthBytes, lengthNum, content, oMsg, dispatched,
                accepted, nativeEndian, intSize>>

\* A step of the loop (each changes phase or sendPc) leaves the requests
\* in flight as they are.
C19_LoopLeavesHttp == <<phase, sendPc>>' # <<phase, sendPc>> => reqs' = reqs

\* C19: a send started over HTTP touches the output stream only: handling a
\* request changes nothing of the loop's state nor the byte order, and a
\* dispatch of the loop changes nothing of the requests in flight.
C19_Separate == [][C19_HttpLeavesLoop]_vars /\ [][C19_LoopLeavesHttp]_vars

\* C19 witness: the loop has read the frame for hello, dispatched it and
\* written the length of its answer, while a request with the action ping
\* is between its own two writes; both headers are on standard output and
\* neither message is.
C19_Witness ==
  /\ phase = "Dispatching"
  /\ sendPc = "message"
  /\ content.data = Envelope(hello)
  /\ oMsg = [Query |-> hello, Response |-> goodbye]
  /\ \E r \in 1..MaxReqs : reqs[r].pc = "message" /\ reqs[r].body = ping
  /\ Len(stdout) = 2
  /\ \A i \in 1..2 : stdout[i].part = "length"

====
